---------------------------- MODULE Spec2Model ----------------------------
(***************************************************************************)
(* A model of the Wallpaper Publisher (src/wallpaper_publisher.py): the    *)
(* Tkinter form, its handlers on the interactive thread, the queue of      *)
(* callbacks scheduled with root.after(0, ...), and the background threads *)
(* started by generate_metadata and publish_wallpaper.                     *)
(*                                                                         *)
(* Text is a TLA+ string, i.e. a sequence of characters: Len, \o and       *)
(* SubSeq act on it as Python's len, + and slicing do.                     *)
(*                                                                         *)
(* Every handler of the interactive thread is one action (Tk runs a        *)
(* handler to completion before it takes the next event); a message box    *)
(* is shown and dismissed inside the handler that opens it.  A background  *)
(* thread is a sequence of steps, one per access to shared state or        *)
(* external call.                                                          *)
(***************************************************************************)
EXTENDS Integers, Sequences, FiniteSets, TLC

\* ------------------------------------------------------------------ bounds

\* Background operations (generation or publish threads) started in one run.
MaxOps == 2

\* Edits the user makes to the text fields and the key entry in one run.
MaxEdits == 1

\* ------------------------------------------------------------------- text

Whitespace == {" ", "\n", "\t"}

CharAt(s, i) == SubSeq(s, i, i)

\* str.lstrip() / str.rstrip() / str.strip() with no argument.
RECURSIVE LStrip(_)
LStrip(s) ==
    IF Len(s) > 0 /\ CharAt(s, 1) \in Whitespace
    THEN LStrip(SubSeq(s, 2, Len(s)))
    ELSE s

RECURSIVE RStrip(_)
RStrip(s) ==
    IF Len(s) > 0 /\ CharAt(s, Len(s)) \in Whitespace
    THEN RStrip(SubSeq(s, 1, Len(s) - 1))
    ELSE s

Strip(s) == LStrip(RStrip(s))

\* Python truthiness of a str.
Truthy(s) == s # ""

\* str.startswith(prefix)
StartsWith(s, prefix) ==
    /\ Len(s) >= Len(prefix)
    /\ SubSeq(s, 1, Len(prefix)) = prefix

\* str.endswith(suffix)
EndsWith(s, suffix) ==
    /\ Len(s) >= Len(suffix)
    /\ SubSeq(s, Len(s) - Len(suffix) + 1, Len(s)) = suffix

\* ', '.join(items) for a sequence of str.
RECURSIVE Join(_, _)
Join(sep, items) ==
    IF Len(items) = 0 THEN ""
    ELSE IF Len(items) = 1 THEN items[1]
    ELSE items[1] \o sep \o Join(sep, Tail(items))

\* Python slicing s[a:-b] for a, b >= 0 (b > 0).
SliceFromTo(s, a, b) == SubSeq(s, a + 1, Len(s) - b)

\* ------------------------------------------------------------ JSON values

\* A parsed JSON value is tagged with its Python type.
JStr(s) == [t |-> "str", v |-> s]
JNum(n) == [t |-> "int", v |-> n]
JList(items) == [t |-> "list", v |-> items]
JObj(fields) == [t |-> "dict", v |-> fields]

\* The JSON documents the AI service answers with in this model.
FullJson ==
    "{\"title\":\"T\",\"description\":\"D\",\"category\":\"art\",\"tags\":[\"a\",\"b\"]}"
PartialJson == "{\"title\":\"T\"}"
ListJson == "[]"
BadTagsJson == "{\"title\":\"T\",\"category\":\"art\",\"tags\":[1]}"
NotJson == "oops"

FullValue ==
    JObj([title |-> JStr("T"), description |-> JStr("D"),
          category |-> JStr("art"), tags |-> JList(<<JStr("a"), JStr("b")>>)])
PartialValue == JObj([title |-> JStr("T")])
ListValue == JList(<<>>)
BadTagsValue ==
    JObj([title |-> JStr("T"), category |-> JStr("art"),
          tags |-> JList(<<JNum(1)>>)])

JsonDecodeError == "Expecting value: line 1 column 1 (char 0)"

\* json.loads(text): [ok |-> TRUE, value |-> v] or [ok |-> FALSE, error |-> msg].
\* json.loads skips whitespace around the document; the documents it accepts
\* here are the ones above, any other text raises JSONDecodeError.
JsonLoads(text) ==
    LET doc == Strip(text) IN
    IF doc = FullJson THEN [ok |-> TRUE, value |-> FullValue, error |-> ""]
    ELSE IF doc = PartialJson THEN [ok |-> TRUE, value |-> PartialValue, error |-> ""]
    ELSE IF doc = ListJson THEN [ok |-> TRUE, value |-> ListValue, error |-> ""]
    ELSE IF doc = BadTagsJson THEN [ok |-> TRUE, value |-> BadTagsValue, error |-> ""]
    ELSE [ok |-> FALSE, value |-> JStr(""), error |-> JsonDecodeError]

\* Lines 329-333: strip the response, then drop a leading fence marker
\* (7 or 3 characters) together with the last three characters.
\* A TLA+ string literal cannot hold the backtick: the character ~ stands for
\* it in every text of this model.
Fence == "~~~"
JsonFence == Fence \o "json"

\* A variant of StripFence that drops the opening marker only.
StripFenceOpening(text) ==
    LET stripped == Strip(text) IN
    IF StartsWith(stripped, JsonFence) THEN SliceFromTo(stripped, 7, 0)
    ELSE IF StartsWith(stripped, Fence) THEN SliceFromTo(stripped, 3, 0)
    ELSE stripped

StripFence(text) ==
    LET stripped == Strip(text) IN
    IF StartsWith(stripped, JsonFence) THEN SliceFromTo(stripped, 7, 3)
    ELSE IF StartsWith(stripped, Fence) THEN SliceFromTo(stripped, 3, 3)
    ELSE stripped

\* What model.generate_content(...).text can be in this model.
Responses ==
    { FullJson,
      JsonFence \o "\n" \o FullJson \o "\n" \o Fence,
      PartialJson,
      ListJson,
      BadTagsJson,
      NotJson }

\* str.split(',') followed by the comprehension of line 423:
\* [tag.strip() for tag in text.split(',') if tag.strip()].
RECURSIVE SplitComma(_, _)
SplitComma(s, piece) ==
    IF Len(s) = 0 THEN <<piece>>
    ELSE IF CharAt(s, 1) = ","
         THEN <<piece>> \o SplitComma(SubSeq(s, 2, Len(s)), "")
         ELSE SplitComma(SubSeq(s, 2, Len(s)), piece \o CharAt(s, 1))

RECURSIVE StripNonEmpty(_)
StripNonEmpty(pieces) ==
    IF Len(pieces) = 0 THEN <<>>
    ELSE IF Truthy(Strip(pieces[1]))
         THEN <<Strip(pieces[1])>> \o StripNonEmpty(Tail(pieces))
         ELSE StripNonEmpty(Tail(pieces))

\* A variant of ParseTags that keeps the pieces as split, without the strip.
RECURSIVE NonEmpty(_)
NonEmpty(pieces) ==
    IF Len(pieces) = 0 THEN <<>>
    ELSE IF Truthy(Strip(pieces[1]))
         THEN <<pieces[1]>> \o NonEmpty(Tail(pieces))
         ELSE NonEmpty(Tail(pieces))

ParseTagsUnstripped(text) == NonEmpty(SplitComma(text, ""))

ParseTags(text) == StripNonEmpty(SplitComma(text, ""))

\* pathlib.Path(path).suffix for a path without directories: the text from
\* the last dot on, empty when there is no dot or the only dot leads the name.
RECURSIVE LastDot(_, _)
LastDot(s, i) ==
    IF i <= 1 THEN 0
    ELSE IF CharAt(s, i) = "." THEN i
    ELSE LastDot(s, i - 1)

Suffix(path) ==
    LET d == LastDot(path, Len(path)) IN
    IF d = 0 \/ d = Len(path) THEN "" ELSE SubSeq(path, d, Len(path))

\* ---------------------------------------------------------------- inputs

\* Python's None, for the attributes that hold a path or a client.
None == "None"

\* The files the user can pick in the dialog: PIL decodes the first one and
\* raises on the second; both can be opened and read as bytes.
Files == {"photo.png", "broken.jpg"}
Decodable == {"photo.png"}

\* The values the category combobox offers (line 155).
Categories == {"nature", "minimal", "abstract", "urban", "space", "art"}

\* What the user can type into the fields.
TitleInputs == {"", "M"}
CategoryInputs == {"", "nature", "zzz"}
TagsInputs == {"", "x"}
DescriptionInputs == {"", "d"}
KeyInputs == {"", " ", "k"}

\* The value of GEMINI_API_KEY read at start-up (line 87).
EnvKeys == {"", "k"}

Ops == 1..MaxOps

\* ------------------------------------------------------------------ state

VARIABLES
    \* application state (lines 49-51)
    selected_image_path, preview_image, generated_metadata,
    \* widgets
    preview_label, gemini_key_entry, title_entry, category_var, tags_entry,
    description_text, generate_btn, publish_btn, status_label, progress_bar,
    \* Tk's queue of callbacks scheduled with root.after(0, ...)
    afterQueue,
    \* the background threads: op -> its position and local variables
    threads,
    \* number of background threads started so far
    started,
    \* number of edits the user has made so far
    edits,
    \* the outside world: the bucket's objects, the table's rows, and per op the
    \* calls it made to the services (the call, whether it returned normally,
    \* and the object name or image URL it carried)
    r2_objects, wallpapers, calls, uuid_count,
    \* start-up: the process environment after load_dotenv, how far start-up
    \* has come, and the names the error box lists (lines 62-87)
    env, phase, missing_vars,
    \* the parsing of one AI response: response.text, and the locals
    \* response_text and metadata of lines 329-335
    response, response_text, metadata

session == <<selected_image_path, preview_image, generated_metadata>>
fields == <<title_entry, category_var, tags_entry, description_text>>
widgets == <<preview_label, gemini_key_entry, generate_btn, publish_btn,
             status_label, progress_bar>>
world == <<r2_objects, wallpapers, calls, uuid_count>>
startup == <<env, phase, missing_vars>>
parsing == <<response, response_text, metadata>>
\* What the running form leaves alone.
aside == <<startup, parsing>>
vars == <<session, fields, widgets, afterQueue, threads, started,
          edits, world, aside>>

\* The form as it stands when Publish is pressed.  The code keeps no such
\* copy: the thread record carries it, from the press until the thread has
\* made its insert call or has failed, as the value the thread's reads of the
\* form are compared with.
NoSubmission ==
    [path |-> None, title |-> "", description |-> "", category |-> "", tags |-> ""]

\* The local variables of a thread that has not started.
NoThread ==
    [kind |-> "none", pc |-> "idle", api_key |-> "",
     file_extension |-> "", unique_filename |-> "", public_url |-> "",
     tags |-> <<>>, title |-> "", description |-> "", category |-> "",
     metadata |-> JStr(""), e |-> "", e_bound |-> FALSE,
     submission |-> NoSubmission, image |-> None]

NoMetadata == JObj(<<>>)


\* A variant of GenerateReady that forgets the image: a key alone enables the
\* button.
GenerateReadyKeyOnly(api_key_text, path) ==
    IF Truthy(Strip(api_key_text)) THEN "normal" ELSE "disabled"

\* check_ready_state, lines 262-267 (also on_api_key_change, lines 213-217).
GenerateReady(api_key_text, path) ==
    IF Truthy(Strip(api_key_text)) /\ path # None THEN "normal" ELSE "disabled"

\* check_ready_state, lines 270-275.
PublishReady(path, title, category) ==
    IF path # None /\ Truthy(Strip(title)) /\ Truthy(Strip(category))
    THEN "normal" ELSE "disabled"

\* check_ready_state as a whole, on the state the handler leaves.
CheckReadyState ==
    /\ generate_btn' = GenerateReady(gemini_key_entry', selected_image_path')
    /\ publish_btn' = PublishReady(selected_image_path', title_entry', category_var')

\* The local metadata of line 335 before json.loads has returned.
NotParsed == [ok |-> FALSE, value |-> JStr(""), error |-> "not parsed"]

\* ------------------------------------------------------------ environment

\* The names the program reads with os.getenv (lines 73-78, 87, 418).
EnvNames ==
    {"NEXT_PUBLIC_SUPABASE_URL", "NEXT_PUBLIC_SUPABASE_ANON_KEY", "R2_ACCOUNT_ID",
     "R2_ACCESS_KEY_ID", "R2_SECRET_ACCESS_KEY", "R2_BUCKET_NAME",
     "R2_PUBLIC_URL", "GEMINI_API_KEY"}

\* required_vars, lines 72-79, in the order of the list.
required_vars ==
    <<"NEXT_PUBLIC_SUPABASE_URL", "NEXT_PUBLIC_SUPABASE_ANON_KEY", "R2_ACCOUNT_ID",
      "R2_ACCESS_KEY_ID", "R2_SECRET_ACCESS_KEY", "R2_BUCKET_NAME">>

\* What a name can hold: no line for it, the template's placeholder, a value.
Absent == "<absent>"
Placeholder == "your_value_here"
EnvValues == {Absent, Placeholder, "v"}

\* os.getenv(var): None when the name is not set.
Getenv(e, var) == IF e[var] = Absent THEN None ELSE e[var]

\* os.getenv(var, default).
GetenvOr(e, var, default) == IF e[var] = Absent THEN default ELSE e[var]

\* Line 81: [var for var in required_vars if not os.getenv(var)].
MissingVars(e) ==
    SelectSeq(required_vars, LAMBDA var : Getenv(e, var) \in {None, ""})

\* The public base URL of the bucket in a complete configuration.
R2_PUBLIC_URL == "https://cdn"

\* A complete environment whose GEMINI_API_KEY is key ("" when it is not set).
CompleteEnv(key) ==
    [var \in EnvNames |->
        CASE var = "R2_PUBLIC_URL" -> R2_PUBLIC_URL
          [] var = "GEMINI_API_KEY" -> IF key = "" THEN Absent ELSE key
          [] OTHER -> "v"]

\* __init__, lines 34-60: load_environment has passed, setup_ui has built the
\* widgets (buttons disabled, key pre-filled from the environment),
\* initialize_services has created both clients (line 205), check_ready_state
\* has run.
Init ==
    /\ status_label = "Services initialized successfully"
    /\ selected_image_path = None
    /\ preview_image = None
    /\ generated_metadata = NoMetadata
    /\ preview_label = [image |-> None, text |-> "No image selected"]
    /\ gemini_key_entry \in EnvKeys
    /\ title_entry = ""
    /\ category_var = ""
    /\ tags_entry = ""
    /\ description_text = ""
    /\ generate_btn = GenerateReady(gemini_key_entry, None)
    /\ publish_btn = PublishReady(None, "", "")
    /\ progress_bar = "stopped"
    /\ afterQueue = <<>>
    /\ threads = [op \in Ops |-> NoThread]
    /\ started = 0
    /\ edits = 0
    /\ r2_objects = {}
    /\ wallpapers = {}
    /\ calls = [op \in Ops |-> <<>>]
    /\ uuid_count = 0
    /\ env = CompleteEnv(gemini_key_entry)
    /\ phase = "running"
    /\ missing_vars = <<>>
    /\ response = None
    /\ response_text = None
    /\ metadata = NotParsed

\* ------------------------------------------------- the interactive thread

\* A variant of ShowPreview whose except clause leaves the label as it is.
ShowPreviewKeepsLabel(path) ==
    IF path \in Decodable
    THEN /\ preview_image' = path
         /\ preview_label' = [image |-> path, text |-> ""]
    ELSE UNCHANGED <<preview_image, preview_label>>

\* show_preview, lines 239-258, for a path that is set: PIL decodes the file
\* or raises, and then the label shows the error and no image.
ShowPreview(path) ==
    IF path \in Decodable
    THEN /\ preview_image' = path
         /\ preview_label' = [image |-> path, text |-> ""]
    ELSE /\ preview_image' = preview_image
         /\ preview_label' = [image |-> None, text |-> "Preview error: cannot identify image file"]

\* select_image, lines 219-237; file_path is "" when the dialog is cancelled.
select_image(file_path) ==
    /\ IF Truthy(file_path)
       THEN /\ selected_image_path' = file_path
            /\ ShowPreview(file_path)
            /\ UNCHANGED <<gemini_key_entry, fields>>
            /\ CheckReadyState
       ELSE UNCHANGED <<selected_image_path, preview_image, preview_label,
                        gemini_key_entry, fields, generate_btn, publish_btn>>
    /\ UNCHANGED <<generated_metadata, status_label, progress_bar,
                   afterQueue, threads, started, edits, world>>
    /\ UNCHANGED aside

\* The user edits a field of the form; no handler is bound to these widgets.
edit_title(text) ==
    /\ edits < MaxEdits
    /\ edits' = edits + 1
    /\ title_entry' = text
    /\ UNCHANGED <<session, category_var, tags_entry, description_text,
                   widgets, afterQueue, threads, started, world>>
    /\ UNCHANGED aside

edit_category(text) ==
    /\ edits < MaxEdits
    /\ edits' = edits + 1
    /\ category_var' = text
    /\ UNCHANGED <<session, title_entry, tags_entry, description_text,
                   widgets, afterQueue, threads, started, world>>
    /\ UNCHANGED aside

edit_tags(text) ==
    /\ edits < MaxEdits
    /\ edits' = edits + 1
    /\ tags_entry' = text
    /\ UNCHANGED <<session, title_entry, category_var, description_text,
                   widgets, afterQueue, threads, started, world>>
    /\ UNCHANGED aside

edit_description(text) ==
    /\ edits < MaxEdits
    /\ edits' = edits + 1
    /\ description_text' = text
    /\ UNCHANGED <<session, title_entry, category_var, tags_entry,
                   widgets, afterQueue, threads, started, world>>
    /\ UNCHANGED aside

\* The user types in the key entry: the <KeyRelease> binding of line 129 runs
\* on_api_key_change, lines 211-217.
on_api_key_change(text) ==
    /\ edits < MaxEdits
    /\ edits' = edits + 1
    /\ gemini_key_entry' = text
    /\ generate_btn' = GenerateReady(text, selected_image_path)
    /\ UNCHANGED <<session, fields, preview_label, publish_btn,
                   status_label, progress_bar, afterQueue, threads, started, world>>
    /\ UNCHANGED aside

\* A variant of ClearForm without the closing check_ready_state: the buttons
\* keep the state they had.
ClearFormStaleButtons ==
    /\ selected_image_path' = None
    /\ preview_image' = None
    /\ generated_metadata' = NoMetadata
    /\ preview_label' = [image |-> None, text |-> "No image selected"]
    /\ title_entry' = ""
    /\ category_var' = ""
    /\ tags_entry' = ""
    /\ description_text' = ""
    /\ status_label' = "Ready"
    /\ UNCHANGED <<gemini_key_entry, generate_btn, publish_btn>>

\* A variant of ClearForm that keeps the description and the generated
\* metadata.
ClearFormKeepsMetadata ==
    /\ selected_image_path' = None
    /\ preview_image' = None
    /\ preview_label' = [image |-> None, text |-> "No image selected"]
    /\ title_entry' = ""
    /\ category_var' = ""
    /\ tags_entry' = ""
    /\ status_label' = "Ready"
    /\ UNCHANGED <<gemini_key_entry, generated_metadata, description_text>>
    /\ CheckReadyState

\* clear_all, lines 457-472, on the form's variables.
ClearForm ==
    /\ selected_image_path' = None
    /\ preview_image' = None
    /\ generated_metadata' = NoMetadata
    /\ preview_label' = [image |-> None, text |-> "No image selected"]
    /\ title_entry' = ""
    /\ category_var' = ""
    /\ tags_entry' = ""
    /\ description_text' = ""
    /\ status_label' = "Ready"
    /\ UNCHANGED gemini_key_entry
    /\ CheckReadyState

\* The Clear All button (line 186): never disabled.
clear_all ==
    /\ ClearForm
    /\ UNCHANGED <<progress_bar, afterQueue, threads, started, edits, world>>
    /\ UNCHANGED aside

\* root.after(0, callback) from thread op: the callback is a closure over the
\* thread's local variables, so the queue holds its name and the op.
After(queue, fn, op) == Append(queue, [fn |-> fn, op |-> op])

Submission ==
    [path |-> selected_image_path, title |-> title_entry,
     description |-> description_text, category |-> category_var,
     tags |-> tags_entry]

\* The next free op, and the start of its thread.
StartThread(kind, pc, api_key) ==
    /\ started < MaxOps
    /\ started' = started + 1
    /\ threads' = [threads EXCEPT ![started + 1] =
                      [NoThread EXCEPT !.kind = kind, !.pc = pc, !.api_key = api_key,
                                       !.submission =
                                           IF kind = "publish" THEN Submission
                                                               ELSE NoSubmission]]

\* A variant of validate_form that checks the image only.
validate_form_image_only(path, title, category) ==
    path # None

\* validate_form, lines 380-394.
validate_form(path, title, category) ==
    /\ path # None
    /\ Truthy(Strip(title))
    /\ Truthy(Strip(category))

\* A variant of publish_wallpaper that refuses while a publish thread runs.
publish_wallpaper_exclusive ==
    /\ publish_btn = "normal"
    /\ IF /\ validate_form(selected_image_path, title_entry, category_var)
          /\ \A op \in Ops : threads[op].kind = "publish" => threads[op].pc = "done"
       THEN StartThread("publish", "p_name", "")
       ELSE UNCHANGED <<threads, started>>
    /\ UNCHANGED <<session, fields, widgets, afterQueue, edits, world>>
    /\ UNCHANGED aside

\* publish_wallpaper, lines 372-378: the Publish button is pressed (it can be
\* pressed only while it is enabled).
publish_wallpaper ==
    /\ publish_btn = "normal"
    /\ IF validate_form(selected_image_path, title_entry, category_var)
       THEN StartThread("publish", "p_name", "")
       ELSE UNCHANGED <<threads, started>>
    /\ UNCHANGED <<session, fields, widgets, afterQueue, edits, world>>
    /\ UNCHANGED aside

\* ----------------------------------------------------- the publish thread

PathTypeError == "expected str, bytes or os.PathLike object, not NoneType"
UploadError == "upload error"
InsertError == "insert error"
NoDataError == "Failed to insert into database"

Raise(op, text, pc) ==
    [threads EXCEPT ![op].e = text, ![op].e_bound = TRUE, ![op].pc = pc,
                    ![op].submission = NoSubmission]

\* A variant of p_name that names the object after the extension alone, with
\* no uuid4.
p_name_fixed(op) ==
    /\ threads[op].pc = "p_name"
    /\ afterQueue' = After(afterQueue, "begin_publish", op)
    /\ IF selected_image_path = None
       THEN threads' = Raise(op, PathTypeError, "p_except")
       ELSE threads' = [threads EXCEPT
                  ![op].file_extension = Suffix(selected_image_path),
                  ![op].unique_filename = "uuid1" \o Suffix(selected_image_path),
                  ![op].pc = "p_upload"]
    /\ UNCHANGED <<session, fields, widgets, started, edits, world>>
    /\ UNCHANGED aside

\* Lines 399-404: schedule the progress bar and the status, then take the
\* suffix of the path selected now and a fresh uuid4.
p_name(op) ==
    /\ threads[op].pc = "p_name"
    /\ afterQueue' = After(afterQueue, "begin_publish", op)
    /\ IF selected_image_path = None
       THEN /\ threads' = Raise(op, PathTypeError, "p_except")
            /\ UNCHANGED uuid_count
       ELSE /\ uuid_count' = uuid_count + 1
            /\ threads' = [threads EXCEPT
                  ![op].file_extension = Suffix(selected_image_path),
                  ![op].unique_filename =
                      "uuid" \o ToString(uuid_count + 1) \o Suffix(selected_image_path),
                  ![op].pc = "p_upload"]
    /\ UNCHANGED <<session, fields, widgets, started, edits,
                   r2_objects, wallpapers, calls>>
    /\ UNCHANGED aside

\* A variant of p_upload that sets the status label from the thread instead of
\* scheduling the update.
p_upload_writes_status(op) ==
    /\ threads[op].pc = "p_upload"
    /\ IF selected_image_path = None
       THEN /\ threads' = Raise(op, PathTypeError, "p_except")
            /\ UNCHANGED <<r2_objects, calls, status_label>>
       ELSE \E ok \in BOOLEAN :
            /\ calls' = [calls EXCEPT ![op] =
                            Append(@, [api |-> "upload", ok |-> ok,
                                       arg |-> threads[op].unique_filename])]
            /\ IF ok
               THEN /\ r2_objects' = r2_objects \cup
                          {[key |-> threads[op].unique_filename,
                            body |-> selected_image_path,
                            content_type |-> "image/" \o
                                SubSeq(threads[op].file_extension, 2,
                                       Len(threads[op].file_extension))]}
                    /\ threads' = [threads EXCEPT
                          ![op].public_url =
                              Getenv(env, "R2_PUBLIC_URL") \o "/"
                                  \o threads[op].unique_filename,
                          ![op].pc = "p_read"]
                    /\ status_label' = "Saving to database..."
               ELSE /\ threads' = Raise(op, UploadError, "p_except")
                    /\ UNCHANGED <<r2_objects, status_label>>
    /\ UNCHANGED <<session, fields, preview_label, gemini_key_entry, generate_btn,
                   publish_btn, progress_bar, afterQueue, started, edits,
                   wallpapers, uuid_count>>
    /\ UNCHANGED aside

\* Lines 407-420: open the path selected now, upload it, build the URL and
\* schedule the next status.  The upload call returns or raises.
p_upload(op) ==
    /\ threads[op].pc = "p_upload"
    /\ IF selected_image_path = None
       THEN /\ threads' = Raise(op, PathTypeError, "p_except")
            /\ UNCHANGED <<r2_objects, calls, afterQueue>>
       ELSE \E ok \in BOOLEAN :
            /\ calls' = [calls EXCEPT ![op] =
                            Append(@, [api |-> "upload", ok |-> ok,
                                       arg |-> threads[op].unique_filename])]
            /\ IF ok
               THEN /\ r2_objects' = r2_objects \cup
                          {[key |-> threads[op].unique_filename,
                            body |-> selected_image_path,
                            content_type |-> "image/" \o
                                SubSeq(threads[op].file_extension, 2,
                                       Len(threads[op].file_extension))]}
                    /\ threads' = [threads EXCEPT
                          ![op].public_url =
                              Getenv(env, "R2_PUBLIC_URL") \o "/"
                                  \o threads[op].unique_filename,
                          ![op].pc = "p_read"]
                    /\ afterQueue' = After(afterQueue, "status_saving", op)
               ELSE /\ threads' = Raise(op, UploadError, "p_except")
                    /\ UNCHANGED <<r2_objects, afterQueue>>
    /\ UNCHANGED <<session, fields, widgets, started, edits, wallpapers,
                   uuid_count>>
    /\ UNCHANGED aside

\* Lines 423-431: read the tags, title, description and category fields.
p_read(op) ==
    /\ threads[op].pc = "p_read"
    /\ threads' = [threads EXCEPT ![op].tags = ParseTags(tags_entry),
                                  ![op].title = Strip(title_entry),
                                  ![op].description = Strip(description_text),
                                  ![op].category = Strip(category_var),
                                  ![op].pc = "p_insert"]
    /\ UNCHANGED <<session, fields, widgets, afterQueue, started, edits, world>>
    /\ UNCHANGED aside

\* Lines 425-431.
WallpaperData(th) ==
    [title |-> th.title, description |-> th.description, category |-> th.category,
     tags |-> th.tags, image_url |-> th.public_url]

\* A variant of p_insert without the test of result.data: only an exception
\* is a failure.
p_insert_unchecked(op) ==
    /\ threads[op].pc = "p_insert"
    /\ \E result \in {"data", "nodata", "raise"} :
          /\ calls' = [calls EXCEPT ![op] =
                          Append(@, [api |-> "insert", ok |-> result = "data",
                                     arg |-> threads[op].public_url])]
          /\ IF result # "raise"
             THEN /\ wallpapers' = IF result = "data"
                                   THEN wallpapers \cup {WallpaperData(threads[op])}
                                   ELSE wallpapers
                  /\ afterQueue' = After(afterQueue, "publish_success", op)
                  /\ threads' = [threads EXCEPT ![op].pc = "p_finally",
                                                ![op].submission = NoSubmission]
             ELSE /\ threads' = Raise(op, InsertError, "p_except")
                  /\ UNCHANGED <<wallpapers, afterQueue>>
    /\ UNCHANGED <<session, fields, widgets, started, edits, r2_objects,
                   uuid_count>>
    /\ UNCHANGED aside

\* Lines 434-439: the insert returns the row, returns no data, or raises; the
\* table gains the row only when the service returns it.
p_insert(op) ==
    /\ threads[op].pc = "p_insert"
    /\ \E result \in {"data", "nodata", "raise"} :
          /\ calls' = [calls EXCEPT ![op] =
                          Append(@, [api |-> "insert", ok |-> result = "data",
                                     arg |-> threads[op].public_url])]
          /\ IF result = "data"
             THEN /\ wallpapers' = wallpapers \cup {WallpaperData(threads[op])}
                  /\ afterQueue' = After(afterQueue, "publish_success", op)
                  /\ threads' = [threads EXCEPT ![op].pc = "p_finally",
                                                ![op].submission = NoSubmission]
             ELSE /\ threads' = Raise(op, IF result = "nodata" THEN NoDataError
                                                                ELSE InsertError,
                                      "p_except")
                  /\ UNCHANGED <<wallpapers, afterQueue>>
    /\ UNCHANGED <<session, fields, widgets, started, edits, r2_objects,
                   uuid_count>>
    /\ UNCHANGED aside

\* Lines 441-442.
p_except(op) ==
    /\ threads[op].pc = "p_except"
    /\ afterQueue' = After(afterQueue, "publish_error", op)
    /\ threads' = [threads EXCEPT ![op].pc = "p_finally"]
    /\ UNCHANGED <<session, fields, widgets, started, edits, world>>
    /\ UNCHANGED aside

\* Lines 443-444.  Leaving the except clause unbinds e (Python deletes the
\* name bound by "except ... as e" at the end of the clause), then the finally
\* clause schedules the stop of the progress bar.
p_finally(op) ==
    /\ threads[op].pc = "p_finally"
    /\ afterQueue' = After(afterQueue, "progress_stop", op)
    /\ threads' = [threads EXCEPT ![op].e_bound = FALSE, ![op].pc = "done"]
    /\ UNCHANGED <<session, fields, widgets, started, edits, world>>
    /\ UNCHANGED aside

\* -------------------------------------------------- the generation thread

\* generate_metadata, lines 282-294: the Generate button is pressed.
generate_metadata ==
    /\ generate_btn = "normal"
    /\ IF selected_image_path # None /\ Truthy(Strip(gemini_key_entry))
       THEN StartThread("generate", "g_open", Strip(gemini_key_entry))
       ELSE UNCHANGED <<threads, started>>
    /\ UNCHANGED <<session, fields, widgets, afterQueue, edits, world>>
    /\ UNCHANGED aside

NoPathImageError == "'NoneType' object has no attribute 'read'"
UndecodableError == "cannot identify image file"
AiError == "AI service error"

\* Lines 299-307: schedule the progress bar and the status, then Image.open
\* on the path selected now.
g_open(op) ==
    /\ threads[op].pc = "g_open"
    /\ afterQueue' = After(afterQueue, "begin_generate", op)
    /\ threads' =
          IF selected_image_path = None THEN Raise(op, NoPathImageError, "g_except")
          ELSE IF selected_image_path \notin Decodable
               THEN Raise(op, UndecodableError, "g_except")
          ELSE [threads EXCEPT ![op].image = selected_image_path,
                               ![op].pc = "g_call"]
    /\ UNCHANGED <<session, fields, widgets, started, edits, world>>
    /\ UNCHANGED aside

\* Lines 326-338: the AI call raises or answers with a text, which is stripped
\* of its fence and parsed; the parsed value is handed to the interactive thread.
g_call(op) ==
    /\ threads[op].pc = "g_call"
    /\ \/ /\ calls' = [calls EXCEPT ![op] = Append(@, [api |-> "generate_content", ok |-> FALSE, arg |-> ""])]
          /\ threads' = Raise(op, AiError, "g_except")
          /\ UNCHANGED afterQueue
       \/ \E text \in Responses :
             LET parsed == JsonLoads(StripFence(text)) IN
             /\ calls' = [calls EXCEPT ![op] = Append(@, [api |-> "generate_content", ok |-> TRUE, arg |-> ""])]
             /\ IF parsed.ok
                THEN /\ threads' = [threads EXCEPT ![op].metadata = parsed.value,
                                                   ![op].pc = "g_finally"]
                     /\ afterQueue' = After(afterQueue, "update_metadata_ui", op)
                ELSE /\ threads' = Raise(op, parsed.error, "g_except")
                     /\ UNCHANGED afterQueue
    /\ UNCHANGED <<session, fields, widgets, started, edits, r2_objects,
                   wallpapers, uuid_count>>
    /\ UNCHANGED aside

\* Lines 340-341.
g_except(op) ==
    /\ threads[op].pc = "g_except"
    /\ afterQueue' = After(afterQueue, "handle_ai_error", op)
    /\ threads' = [threads EXCEPT ![op].pc = "g_finally"]
    /\ UNCHANGED <<session, fields, widgets, started, edits, world>>
    /\ UNCHANGED aside

\* Lines 342-343; leaving the except clause unbinds e, as in the publish thread.
g_finally(op) ==
    /\ threads[op].pc = "g_finally"
    /\ afterQueue' = After(afterQueue, "progress_stop", op)
    /\ threads' = [threads EXCEPT ![op].e_bound = FALSE, ![op].pc = "done"]
    /\ UNCHANGED <<session, fields, widgets, started, edits, world>>
    /\ UNCHANGED aside

\* --------------------------------------- callbacks on the interactive thread

\* dict.get(key, default)
Get(m, key, default) == IF key \in DOMAIN m.v THEN m.v[key] ELSE default

\* The text a widget receives for a Python value (str as it is, int by its
\* digits); the documents of this model put nothing else into these fields.
TclText(value) ==
    CASE value.t = "str" -> value.v
      [] value.t = "int" -> ToString(value.v)

\* Whether ', '.join(tags) returns: tags must be iterable and yield only str.
Joinable(tags) ==
    \/ tags.t = "str"
    \/ /\ tags.t = "list"
       /\ \A i \in 1..Len(tags.v) : tags.v[i].t = "str"

JoinTags(tags) ==
    IF tags.t = "str"
    THEN Join(", ", [i \in 1..Len(tags.v) |-> CharAt(tags.v, i)])
    ELSE Join(", ", [i \in 1..Len(tags.v) |-> tags.v[i].v])

\* A variant of UpdateMetadataFields that merges: a key the object lacks keeps
\* the field's text.
UpdateMetadataFieldsMerge(m, title, category, tags, description) ==
    IF m.t # "dict"
    THEN [ok |-> FALSE, title |-> "", category |-> category, tags |-> tags,
          description |-> description,
          error |-> "'" \o m.t \o "' object has no attribute 'get'"]
    ELSE IF ~Joinable(Get(m, "tags", JList(<<>>)))
    THEN [ok |-> FALSE,
          title |-> TclText(Get(m, "title", JStr(title))),
          category |-> TclText(Get(m, "category", JStr(category))),
          tags |-> "", description |-> description,
          error |-> "sequence item 0: expected str instance, int found"]
    ELSE [ok |-> TRUE,
          title |-> TclText(Get(m, "title", JStr(title))),
          category |-> TclText(Get(m, "category", JStr(category))),
          tags |-> IF "tags" \in DOMAIN m.v
                   THEN JoinTags(Get(m, "tags", JList(<<>>))) ELSE tags,
          description |-> TclText(Get(m, "description", JStr(description))),
          error |-> ""]

\* _update_metadata_ui, lines 347-365, as the values it leaves in the four
\* fields given the values they held: the statements run in order until one
\* raises, and what ran before stays.
UpdateMetadataFields(m, title, category, tags, description) ==
    IF m.t # "dict"
    THEN \* line 348 has emptied the title, line 349 raises AttributeError
         [ok |-> FALSE, title |-> "", category |-> category, tags |-> tags,
          description |-> description,
          error |-> "'" \o m.t \o "' object has no attribute 'get'"]
    ELSE IF ~Joinable(Get(m, "tags", JList(<<>>)))
    THEN \* lines 348-354 have run, the join of line 355 raises TypeError
         [ok |-> FALSE,
          title |-> TclText(Get(m, "title", JStr(""))),
          category |-> TclText(Get(m, "category", JStr(""))),
          tags |-> "", description |-> description,
          error |-> "sequence item 0: expected str instance, int found"]
    ELSE [ok |-> TRUE,
          title |-> TclText(Get(m, "title", JStr(""))),
          category |-> TclText(Get(m, "category", JStr(""))),
          tags |-> JoinTags(Get(m, "tags", JList(<<>>))),
          description |-> TclText(Get(m, "description", JStr(""))),
          error |-> ""]

\* The callback at the head of Tk's queue is fn, scheduled by thread op.
Due(fn, op) ==
    /\ afterQueue # <<>>
    /\ Head(afterQueue) = [fn |-> fn, op |-> op]
    /\ afterQueue' = Tail(afterQueue)

StatusText(fn) ==
    CASE fn = "begin_generate" -> "Generating metadata with AI..."
      [] fn = "begin_publish" -> "Uploading to R2..."
      [] fn = "status_saving" -> "Saving to database..."

\* lambda: self.progress_bar.start() followed by lambda: self.update_status(...),
\* lines 299-300 and 399-400.  A thread schedules the two one after the other,
\* and Tk runs the timers that are due in one pass, so they run together.
begin(op) ==
    \E fn \in {"begin_generate", "begin_publish"} :
        /\ Due(fn, op)
        /\ progress_bar' = "running"
        /\ status_label' = StatusText(fn)
        /\ UNCHANGED <<session, fields, preview_label, gemini_key_entry,
                       generate_btn, publish_btn, threads, started, edits, world>>
        /\ UNCHANGED aside

\* lambda: self.progress_bar.stop().  It is the last callback a thread
\* schedules: once it has run nothing refers to the thread's local variables
\* any more, and they are dropped.
progress_stop(op) ==
    /\ Due("progress_stop", op)
    /\ progress_bar' = "stopped"
    /\ threads' = [threads EXCEPT ![op] =
                      [NoThread EXCEPT !.kind = threads[op].kind, !.pc = "done"]]
    /\ UNCHANGED <<session, fields, preview_label, gemini_key_entry,
                   generate_btn, publish_btn, status_label, started, edits, world>>
    /\ UNCHANGED aside

\* lambda: self.update_status("Saving to database...", "blue"), line 420.
status_saving(op) ==
    /\ Due("status_saving", op)
    /\ status_label' = StatusText("status_saving")
    /\ UNCHANGED <<session, fields, preview_label, gemini_key_entry,
                   generate_btn, publish_btn, progress_bar, threads, started, edits, world>>
    /\ UNCHANGED aside

\* lambda: self._update_metadata_ui(metadata), lines 345-365.
update_metadata_ui(op) ==
    /\ Due("update_metadata_ui", op)
    /\ LET r == UpdateMetadataFields(threads[op].metadata, title_entry,
                                     category_var, tags_entry, description_text)
       IN /\ title_entry' = r.title
          /\ category_var' = r.category
          /\ tags_entry' = r.tags
          /\ description_text' = r.description
          /\ UNCHANGED <<selected_image_path, preview_image, gemini_key_entry>>
          /\ IF r.ok
             THEN /\ generated_metadata' = threads[op].metadata
                  /\ status_label' = "Metadata generated successfully!"
                  /\ CheckReadyState
             ELSE /\ status_label' = "Error updating metadata: " \o r.error
                  /\ UNCHANGED <<generated_metadata, generate_btn, publish_btn>>
    /\ UNCHANGED <<preview_label, progress_bar, threads, started, edits, world>>
    /\ UNCHANGED aside

\* lambda: self._handle_ai_error(str(e)), lines 341 and 367-370.  The lambda
\* reads e when it runs: if the thread has left its except clause by then, e
\* is unbound, the lambda raises NameError and the handler does not run.
handle_ai_error(op) ==
    /\ Due("handle_ai_error", op)
    /\ status_label' = IF threads[op].e_bound
                       THEN "AI generation failed: " \o threads[op].e
                       ELSE status_label
    /\ UNCHANGED <<session, fields, preview_label, gemini_key_entry,
                   generate_btn, publish_btn, progress_bar, threads, started, edits, world>>
    /\ UNCHANGED aside

\* lambda: self._publish_success(public_url), lines 437 and 446-450.
publish_success(op) ==
    /\ Due("publish_success", op)
    /\ ClearForm
    /\ UNCHANGED <<progress_bar, threads, started, edits, world>>
    /\ UNCHANGED aside

\* A variant of publish_error that resets the form as the success path does.
publish_error_clears(op) ==
    /\ Due("publish_error", op)
    /\ ClearForm
    /\ UNCHANGED <<progress_bar, threads, started, edits, world>>
    /\ UNCHANGED aside

\* lambda: self._publish_error(str(e)), lines 442 and 452-455; e as above.
publish_error(op) ==
    /\ Due("publish_error", op)
    /\ status_label' = IF threads[op].e_bound
                       THEN "Publishing failed: " \o threads[op].e
                       ELSE status_label
    /\ UNCHANGED <<session, fields, preview_label, gemini_key_entry,
                   generate_btn, publish_btn, progress_bar, threads, started, edits, world>>
    /\ UNCHANGED aside

\* ------------------------------------------------------------ specification

\* What the user does.
User ==
    \/ \E file_path \in Files \cup {""} : select_image(file_path)
    \/ \E text \in TitleInputs : edit_title(text)
    \/ \E text \in CategoryInputs : edit_category(text)
    \/ \E text \in TagsInputs : edit_tags(text)
    \/ \E text \in DescriptionInputs : edit_description(text)
    \/ \E text \in KeyInputs : on_api_key_change(text)
    \/ generate_metadata
    \/ publish_wallpaper
    \/ clear_all

\* Tk's main loop runs the callback at the head of its queue.
MainLoop ==
    \E op \in Ops :
        \/ begin(op)
        \/ status_saving(op)
        \/ progress_stop(op)
        \/ update_metadata_ui(op)
        \/ handle_ai_error(op)
        \/ publish_success(op)
        \/ publish_error(op)

\* A background thread takes its next step.
Background ==
    \E op \in Ops :
        \/ p_name(op) \/ p_upload(op) \/ p_read(op) \/ p_insert(op)
        \/ p_except(op) \/ p_finally(op)
        \/ g_open(op) \/ g_call(op) \/ g_except(op) \/ g_finally(op)

Next == User \/ MainLoop \/ Background

Spec == Init /\ [][Next]_vars

\* The main loop keeps running callbacks and the threads keep being scheduled;
\* nothing obliges the user to act.
FairSpec == Spec /\ WF_vars(MainLoop) /\ WF_vars(Background)

\* ------------------------------------------------------------------ claims

\* ------------------------------------------------------------- a filled form

\* The form after the user has typed a title, chosen a category and then
\* selected photo.png: select_image has shown the preview and its
\* check_ready_state has enabled Publish (lines 233-237, 270-273).
FilledInit ==
    /\ status_label = "Services initialized successfully"
    /\ selected_image_path = "photo.png"
    /\ preview_image = "photo.png"
    /\ generated_metadata = NoMetadata
    /\ preview_label = [image |-> "photo.png", text |-> ""]
    /\ gemini_key_entry \in EnvKeys
    /\ title_entry = "M"
    /\ category_var = "nature"
    /\ tags_entry = ""
    /\ description_text = ""
    /\ generate_btn = GenerateReady(gemini_key_entry, "photo.png")
    /\ publish_btn = PublishReady("photo.png", "M", "nature")
    /\ progress_bar = "stopped"
    /\ afterQueue = <<>>
    /\ threads = [op \in Ops |-> NoThread]
    /\ started = 0
    /\ edits = 0
    /\ r2_objects = {}
    /\ wallpapers = {}
    /\ calls = [op \in Ops |-> <<>>]
    /\ uuid_count = 0
    /\ env = CompleteEnv(gemini_key_entry)
    /\ phase = "running"
    /\ missing_vars = <<>>
    /\ response = None
    /\ response_text = None
    /\ metadata = NotParsed

\* What the user does with the filled form from here on: the three buttons
\* that start an operation or reset the form.
Buttons ==
    \/ generate_metadata
    \/ publish_wallpaper
    \/ clear_all

FilledNext == Buttons \/ MainLoop \/ Background

FilledSpec == FilledInit /\ [][FilledNext]_vars

\* ------------------------------------------------- parsing one AI response

\* The JSON documents of this model, and the whitespace the service may put
\* around a document or around the whole answer.
Documents == {FullJson, PartialJson, ListJson, BadTagsJson}
Pads == {"", " ", "\n"}

\* What response.text can be: a document or a text that is not JSON, bare or
\* inside a fence with or without the json tag or without the closing marker,
\* with whitespace around the document and around the answer.
RawResponses ==
    LET Bodies == {lead \o doc \o trail :
                      lead \in {"", "\n"}, doc \in Documents \cup {NotJson},
                      trail \in {"", "\n"}}
        Answers == Documents \cup {NotJson}
                     \cup {JsonFence \o body \o Fence : body \in Bodies}
                     \cup {Fence \o body \o Fence : body \in Bodies}
                     \cup {JsonFence \o body : body \in Bodies}
    IN {lead \o answer \o trail : lead \in Pads, answer \in Answers, trail \in Pads}

\* The generation thread has the answer of line 326 in hand.
ParseInit ==
    /\ response \in RawResponses
    /\ response_text = None
    /\ metadata = NotParsed
    /\ status_label = "Generating metadata with AI..."
    /\ selected_image_path = "photo.png"
    /\ preview_image = "photo.png"
    /\ generated_metadata = NoMetadata
    /\ preview_label = [image |-> "photo.png", text |-> ""]
    /\ gemini_key_entry = "k"
    /\ title_entry = ""
    /\ category_var = ""
    /\ tags_entry = ""
    /\ description_text = ""
    /\ generate_btn = "normal"
    /\ publish_btn = "disabled"
    /\ progress_bar = "running"
    /\ afterQueue = <<>>
    /\ threads = [op \in Ops |-> NoThread]
    /\ started = 0
    /\ edits = 0
    /\ r2_objects = {}
    /\ wallpapers = {}
    /\ calls = [op \in Ops |-> <<>>]
    /\ uuid_count = 0
    /\ env = CompleteEnv("k")
    /\ phase = "running"
    /\ missing_vars = <<>>

\* Lines 329-333: response_text = response.text.strip(), less the fence.
strip_response ==
    /\ response_text = None
    /\ response_text' = StripFence(response)
    /\ UNCHANGED <<response, metadata, startup, session, fields, widgets,
                   afterQueue, threads, started, edits, world>>

\* Line 335: metadata = json.loads(response_text).
parse_response ==
    /\ response_text # None
    /\ metadata = NotParsed
    /\ metadata' = JsonLoads(response_text)
    /\ UNCHANGED <<response, response_text, startup, session, fields, widgets,
                   afterQueue, threads, started, edits, world>>

ParseNext == strip_response \/ parse_response

ParseSpec == ParseInit /\ [][ParseNext]_vars

\* ------------------------------------------- from generated tags to the row

\* The tags the AI service may put into its answer, and the lists of them.
TagTexts == {"a", "b", "a b", "a,b", " a", ""}
TagLists ==
    {<<>>} \cup {<<g1>> : g1 \in TagTexts}
           \cup {<<g1, g2>> : g1 \in TagTexts, g2 \in TagTexts}

\* The parsed answer {title, category, tags} with the given tags.
AnswerWith(tags) ==
    JObj([title |-> JStr("T"), category |-> JStr("art"),
          tags |-> JList([i \in 1..Len(tags) |-> JStr(tags[i])])])

\* A generation for photo.png has run to its end (lines 335-343): its result
\* and the stop of the progress bar are scheduled, the form is still empty.
GeneratedInit ==
    /\ \E tags \in TagLists :
          threads = [op \in Ops |->
                        IF op = 1
                        THEN [NoThread EXCEPT !.kind = "generate", !.pc = "done",
                                              !.api_key = "k", !.image = "photo.png",
                                              !.metadata = AnswerWith(tags)]
                        ELSE NoThread]
    /\ afterQueue = <<[fn |-> "update_metadata_ui", op |-> 1],
                      [fn |-> "progress_stop", op |-> 1]>>
    /\ started = 1
    /\ status_label = "Generating metadata with AI..."
    /\ selected_image_path = "photo.png"
    /\ preview_image = "photo.png"
    /\ generated_metadata = NoMetadata
    /\ preview_label = [image |-> "photo.png", text |-> ""]
    /\ gemini_key_entry = "k"
    /\ title_entry = ""
    /\ category_var = ""
    /\ tags_entry = ""
    /\ description_text = ""
    /\ generate_btn = "normal"
    /\ publish_btn = "disabled"
    /\ progress_bar = "running"
    /\ edits = 0
    /\ r2_objects = {}
    /\ wallpapers = {}
    /\ calls = [op \in Ops |-> <<>>]
    /\ uuid_count = 0
    /\ env = CompleteEnv("k")
    /\ phase = "running"
    /\ missing_vars = <<>>
    /\ response = None
    /\ response_text = None
    /\ metadata = NotParsed

\* The result is applied and the form is published as it is: no field is
\* edited, nothing else is pressed.
PublishGeneratedNext ==
    \/ publish_wallpaper
    \/ \E op \in Ops :
          \/ update_metadata_ui(op)
          \/ begin(op)
          \/ status_saving(op)
          \/ publish_success(op)
          \/ publish_error(op)
          \/ progress_stop(op)
          \/ p_name(op)
          \/ p_upload(op)
          \/ p_read(op)
          \/ p_insert(op)
          \/ p_except(op)
          \/ p_finally(op)

PublishGeneratedSpec == GeneratedInit /\ [][PublishGeneratedNext]_vars

\* ------------------------------------------------------------------ start-up

\* The process is started: nothing is built yet, the environment is whatever
\* .env.local and the shell give.
StartupInit ==
    /\ env \in [EnvNames -> EnvValues]
    /\ phase = "start"
    /\ missing_vars = <<>>
    /\ status_label = ""
    /\ selected_image_path = None
    /\ preview_image = None
    /\ generated_metadata = NoMetadata
    /\ preview_label = [image |-> None, text |-> "No image selected"]
    /\ gemini_key_entry = ""
    /\ title_entry = ""
    /\ category_var = ""
    /\ tags_entry = ""
    /\ description_text = ""
    /\ generate_btn = "disabled"
    /\ publish_btn = "disabled"
    /\ progress_bar = "stopped"
    /\ afterQueue = <<>>
    /\ threads = [op \in Ops |-> NoThread]
    /\ started = 0
    /\ edits = 0
    /\ r2_objects = {}
    /\ wallpapers = {}
    /\ calls = [op \in Ops |-> <<>>]
    /\ uuid_count = 0
    /\ response = None
    /\ response_text = None
    /\ metadata = NotParsed

\* check_environment of the setup script (src/setup_wallpaper_publisher.py,
\* lines 20-61): a required name counts as missing when the file has no line
\* for it or the line holds the template's "your_" placeholder.
SetupMissing(e) ==
    SelectSeq(required_vars, LAMBDA var : e[var] = Absent \/ StartsWith(e[var], "your_"))

\* The setup script is run before the program, lines 74-77 of the script.
check_environment ==
    /\ phase = "start"
    /\ missing_vars' = SetupMissing(env)
    /\ phase' = IF SetupMissing(env) = <<>> THEN "setup_passed" ELSE "setup_failed"
    /\ UNCHANGED <<env, session, fields, widgets, afterQueue, threads, started,
                   edits, world, parsing>>

\* load_environment, lines 62-87, and the rest of __init__ when it returns:
\* sys.exit(1) when .env.local does not exist or a required name is unset or
\* empty; otherwise the key entry is filled from GEMINI_API_KEY (lines 87,
\* 132-133) and the services are initialised.
load_environment ==
    /\ phase \in {"start", "setup_passed"}
    /\ \E exists \in BOOLEAN :
          IF ~exists
          THEN /\ phase' = "exited"
               /\ missing_vars' = <<>>
               /\ status_label' = ".env.local file not found!"
               /\ UNCHANGED gemini_key_entry
          ELSE IF MissingVars(env) # <<>>
          THEN /\ phase' = "exited"
               /\ missing_vars' = MissingVars(env)
               /\ status_label' = "Missing environment variables: "
                                      \o Join(", ", MissingVars(env))
               /\ UNCHANGED gemini_key_entry
          ELSE /\ phase' = "running"
               /\ missing_vars' = <<>>
               /\ status_label' = "Services initialized successfully"
               /\ gemini_key_entry' = GetenvOr(env, "GEMINI_API_KEY", "")
    /\ UNCHANGED <<env, session, fields, preview_label, generate_btn, publish_btn,
                   progress_bar, afterQueue, threads, started, edits, world, parsing>>

StartupNext == check_environment \/ load_environment

StartupSpec == StartupInit /\ [][StartupNext]_vars


ImageSelected == selected_image_path # None

\* C1: in every reachable state the Publish button is enabled if and only if
\* an image is selected and the title and the category are non-empty.
C1_PublishEnabledIffReady ==
    (publish_btn = "normal") <=>
        (ImageSelected /\ title_entry # "" /\ category_var # "")

\* The calls of one kind an op has made.
CallsOf(op, api) == SelectSeq(calls[op], LAMBDA c : c.api = api)

Finished(op) == threads[op].pc = "done"

\* C2: every publish operation makes exactly one upload call and at most one
\* insert call, the insert only after its upload has returned successfully.
\* The count of uploads is taken once the operation's thread has ended.
C2_OneUploadThenInsert ==
    \A op \in Ops :
        threads[op].kind = "publish" =>
            /\ Len(CallsOf(op, "upload")) <= 1
            /\ Len(CallsOf(op, "insert")) <= 1
            /\ Len(CallsOf(op, "insert")) = 1 =>
                  /\ Len(calls[op]) = 2
                  /\ calls[op][1].api = "upload"
                  /\ calls[op][1].ok
            /\ Finished(op) => Len(CallsOf(op, "upload")) = 1

\* C3: whenever the failure callback a publish thread scheduled runs on the
\* interactive thread, it surfaces a message holding the error text, in every
\* interleaving with the thread's remaining steps.
C3_PublishFailureSurfaced ==
    [][\A op \in Ops :
          (publish_error(op) /\ threads[op].e \in {UploadError, InsertError, NoDataError})
              => status_label' = "Publishing failed: " \o threads[op].e]_vars

\* C4: handling a publish failure changes nothing but the status message: the
\* selected file, the preview and the four fields keep their values.
C4_PublishErrorKeepsSession ==
    [][\A op \in Ops :
          publish_error(op) =>
              UNCHANGED <<selected_image_path, preview_image, preview_label,
                          generated_metadata, title_entry, category_var,
                          tags_entry, description_text, generate_btn,
                          publish_btn, progress_bar>>]_vars

C4_Witness ==
    /\ status_label = "Publishing failed: " \o InsertError
    /\ ImageSelected
    /\ title_entry # ""
    /\ category_var # ""
    /\ tags_entry # ""

\* An op whose upload returned and whose insert raised or returned no data.
InsertFailedAfterUpload(op) ==
    /\ Len(calls[op]) >= 2
    /\ calls[op][1].api = "upload" /\ calls[op][1].ok
    /\ calls[op][2].api = "insert" /\ ~calls[op][2].ok

\* C5: when the upload succeeds and the insert raises or returns no data, the
\* operation takes the failure path and never the success path, it makes no
\* further call to the storage (or to anything), and the uploaded object stays
\* in the bucket with no row referring to it.
C5_InsertFailureLeavesOrphan ==
    \A op \in Ops :
        InsertFailedAfterUpload(op) =>
            /\ threads[op].pc \in {"p_except", "p_finally", "done"}
            /\ \A i \in 1..Len(afterQueue) :
                  afterQueue[i] # [fn |-> "publish_success", op |-> op]
            /\ threads[op].pc = "p_except" => threads[op].e \in {InsertError, NoDataError}
            /\ Len(calls[op]) = 2
            /\ \E o \in r2_objects : o.key = calls[op][1].arg
            /\ \A w \in wallpapers : w.image_url # calls[op][2].arg

C5_Witness ==
    \E op \in Ops : InsertFailedAfterUpload(op) /\ Finished(op)

\* The form as __init__ leaves it: nothing selected, nothing shown, the four
\* fields empty, both actions disabled.
EmptyForm ==
    /\ selected_image_path = None
    /\ preview_image = None
    /\ preview_label = [image |-> None, text |-> "No image selected"]
    /\ title_entry = ""
    /\ category_var = ""
    /\ tags_entry = ""
    /\ description_text = ""
    /\ publish_btn = "disabled"
    /\ generate_btn = "disabled"

\* C6: once the success of a publish operation has been handled, the form is
\* in its empty initial state and both actions are disabled.
C6_SuccessResetsForm ==
    [][\A op \in Ops : publish_success(op) => EmptyForm']_vars

AllCallbacksRun ==
    /\ afterQueue = <<>>
    /\ \A op \in Ops : threads[op].pc \in {"idle", "done"}

\* A row was inserted, so a success callback was scheduled, and every callback
\* has run: the success has been handled, and the form is empty.
C6_Witness ==
    /\ wallpapers # {}
    /\ AllCallbacksRun
    /\ EmptyForm
    /\ status_label = "Ready"

\* What Clear All leaves: no file, no preview, the four fields and the
\* generated-metadata record empty.
Cleared ==
    /\ selected_image_path = None
    /\ preview_image = None
    /\ preview_label = [image |-> None, text |-> "No image selected"]
    /\ title_entry = ""
    /\ category_var = ""
    /\ tags_entry = ""
    /\ description_text = ""
    /\ generated_metadata = JObj(<<>>)

\* C7: Clear All can be taken in every reachable state, also while a thread is
\* in flight, and leaves the session and the fields empty whatever they held.
C7_ClearAlwaysResets ==
    /\ [](ENABLED clear_all)
    /\ [][clear_all => Cleared']_vars

\* A publish thread is in flight (Publish needs a title, so the form was
\* filled when it started) and the form has been cleared under it.
C7_Witness ==
    /\ \E op \in Ops : threads[op].kind = "publish" /\ threads[op].pc = "p_upload"
    /\ Cleared
    /\ status_label = "Ready"

\* The key entry holds a character that is not whitespace.
KeyNotBlank ==
    \E i \in 1..Len(gemini_key_entry) : CharAt(gemini_key_entry, i) \notin Whitespace

\* C8 as stated: the Generate button is enabled if and only if an image is
\* selected and the text of the key entry is non-empty.
C8_GenerateEnabledIffKeyNonEmpty ==
    (generate_btn = "normal") <=> (ImageSelected /\ gemini_key_entry # "")

\* C8 amended: the Generate button is enabled if and only if an image is
\* selected and the key entry holds more than whitespace.
C8_GenerateEnabledIffKeyNotBlank ==
    (generate_btn = "normal") <=> (ImageSelected /\ KeyNotBlank)

\* An image is selected and the user has typed a blank into an empty key
\* entry: the key is non-empty and the button is disabled.
C8_Witness ==
    /\ ImageSelected
    /\ gemini_key_entry = " "
    /\ edits = 1
    /\ generate_btn = "disabled"

\* The text the claim expects in a field for key k of the parsed object m.
ExpectedText(m, k) == IF k \in DOMAIN m.v THEN m.v[k].v ELSE ""

\* g1..gn joined by ", ", written out for the lengths the responses have.
ExpectedTags(m) ==
    LET g == IF "tags" \in DOMAIN m.v THEN m.v["tags"].v ELSE <<>> IN
    CASE Len(g) = 0 -> ""
      [] Len(g) = 1 -> g[1].v
      [] Len(g) = 2 -> g[1].v \o ", " \o g[2].v

\* A parsed object whose tags, when present, are a list of at most two texts.
WellFormed(m) ==
    /\ m.t = "dict"
    /\ "tags" \in DOMAIN m.v =>
          /\ m.v["tags"].t = "list"
          /\ Len(m.v["tags"].v) <= 2
          /\ \A i \in 1..Len(m.v["tags"].v) : m.v["tags"].v[i].t = "str"

\* C9: applying a parsed object {title, description, category, tags} leaves
\* exactly its title, category and description in the fields and its tags
\* joined by ", ", whatever the fields held; a missing key empties its field.
C9_ResultOverwritesFields ==
    [][\A op \in Ops :
          (update_metadata_ui(op) /\ WellFormed(threads[op].metadata)) =>
              /\ title_entry' = ExpectedText(threads[op].metadata, "title")
              /\ category_var' = ExpectedText(threads[op].metadata, "category")
              /\ description_text' = ExpectedText(threads[op].metadata, "description")
              /\ tags_entry' = ExpectedTags(threads[op].metadata)]_vars

C9_Witness ==
    /\ status_label = "Metadata generated successfully!"
    /\ title_entry = "T"
    /\ category_var = "art"
    /\ description_text = "D"
    /\ tags_entry = "a, b"

\* C10: when a generation does not complete successfully (the call raises,
\* the text does not parse, or the parsed value cannot be applied), the
\* callback that reports it surfaces the error and leaves title, category,
\* tags and description as they were.
C10_GenerationFailureKeepsFields ==
    [][\A op \in Ops :
          /\ handle_ai_error(op) =>
                /\ status_label' = "AI generation failed: " \o threads[op].e
                /\ UNCHANGED fields
          /\ (update_metadata_ui(op) /\ ~WellFormed(threads[op].metadata)) =>
                /\ status_label' # status_label
                /\ UNCHANGED fields]_vars

\* The configuration values the specification requires.
RequiredNames ==
    {"NEXT_PUBLIC_SUPABASE_URL", "NEXT_PUBLIC_SUPABASE_ANON_KEY", "R2_ACCOUNT_ID",
     "R2_ACCESS_KEY_ID", "R2_SECRET_ACCESS_KEY", "R2_BUCKET_NAME", "R2_PUBLIC_URL"}

\* The required names that are missing or still hold the placeholder.
NotConfigured == {var \in RequiredNames : env[var] \in {Absent, Placeholder}}

\* C11: start-up ends in an exit that lists the missing names whenever one of
\* the seven required values (the public base URL among them) is missing or
\* holds its placeholder, so the form never runs without a public base URL;
\* a missing AI key alone does not abort start-up.
C11_StartupAbortsOnMissing ==
    /\ phase = "running" => NotConfigured = {}
    /\ (phase = "exited" /\ missing_vars # <<>>) =>
          {missing_vars[i] : i \in 1..Len(missing_vars)} = NotConfigured
    /\ (phase = "exited" /\ NotConfigured = {}) =>
          status_label = ".env.local file not found!"

\* C12: every row in the table has a non-empty title and a non-empty
\* category, whatever the user did while the operation was in flight.
C12_RowsHaveTitleAndCategory ==
    \A w \in wallpapers : w.title # "" /\ w.category # ""

\* C13: the category field always holds one of the six offered values or is
\* empty, and so does the category of every row in the table.
C13_CategoryInFixedSet ==
    /\ category_var \in Categories \cup {""}
    /\ \A w \in wallpapers : w.category \in Categories \cup {""}

\* The extension of each file of the dialog.
ExtensionOf(file) == IF file = "photo.png" THEN ".png" ELSE ".jpg"

\* The identifiers uuid4 has handed out.
Identifiers == {"uuid" \o ToString(n) : n \in 1..MaxOps}

\* The object names op has built or sent to the bucket.
NamesOf(op) ==
    {calls[op][i].arg : i \in {j \in 1..Len(calls[op]) : calls[op][j].api = "upload"}}
        \cup ({threads[op].unique_filename} \ {""})

\* C14: the image_url of every row is the public base URL, "/" and the object
\* name uploaded by the operation that inserted it; an object name is a fresh
\* identifier followed by the extension of the selected file; and no two
\* operations have the same object name.
C14_ImageUrlAndUniqueNames ==
    /\ [](\A w \in wallpapers :
            \E op \in Ops :
                /\ Len(calls[op]) = 2
                /\ calls[op][1] = [api |-> "upload", ok |-> TRUE, arg |-> calls[op][1].arg]
                /\ calls[op][2] = [api |-> "insert", ok |-> TRUE, arg |-> w.image_url]
                /\ w.image_url = "https://cdn" \o "/" \o calls[op][1].arg)
    /\ [](\A op1, op2 \in Ops : op1 # op2 => NamesOf(op1) \cap NamesOf(op2) = {})
    /\ [][\A op \in Ops :
            (p_name(op) /\ threads'[op].pc = "p_upload") =>
                /\ \E id \in Identifiers :
                      threads'[op].unique_filename = id \o ExtensionOf(selected_image_path)
                /\ \A o \in r2_objects : o.key # threads'[op].unique_filename]_vars

\* Two operations have each uploaded an object and inserted a row.
C14_Witness ==
    /\ Cardinality(wallpapers) = 2
    /\ Cardinality({o.key : o \in r2_objects}) = 2

\* Thread op of the given kind has started and has not reached its end.
InFlight(op, kind) ==
    threads[op].kind = kind /\ threads[op].pc \notin {"idle", "done"}

\* A press of Publish, or of Generate, that starts a thread.
StartsPublish == publish_wallpaper /\ started' = started + 1
StartsGenerate == generate_metadata /\ started' = started + 1

\* C15: whenever the form allows an action and a thread can still be started,
\* pressing its button starts a new thread, whatever operations are in flight;
\* and the new thread leaves the threads that are running as they are.
C15_NoMutualExclusion ==
    /\ []((/\ publish_btn = "normal"
           /\ selected_image_path # None /\ title_entry # "" /\ category_var # ""
           /\ started < MaxOps) => ENABLED StartsPublish)
    /\ []((/\ generate_btn = "normal"
           /\ selected_image_path # None /\ gemini_key_entry = "k"
           /\ started < MaxOps) => ENABLED StartsGenerate)
    /\ [][(StartsPublish \/ StartsGenerate) =>
             /\ threads'[started'].pc \in {"p_name", "g_open"}
             /\ \A op \in 1..started : threads'[op] = threads[op]]_vars

\* Two publish operations are in flight at once, the first about to insert its
\* row and the second about to upload its file.
C15_Witness ==
    /\ InFlight(1, "publish") /\ threads[1].pc = "p_insert"
    /\ InFlight(2, "publish") /\ threads[2].pc = "p_upload"

\* C16: a step of a background thread leaves the selected file, the preview,
\* the generated metadata, the fields, the status, the progress bar and the
\* buttons as they are; it changes only its own locals, the outside services
\* and the queue of callbacks for the interactive thread.
C16_BackgroundNeverWritesForm ==
    [][Background => UNCHANGED <<session, fields, widgets>>]_vars

\* A publish thread has uploaded its file and handed the status update to the
\* interactive thread, which has not run it yet.
C16_Witness ==
    \E op \in Ops :
        /\ threads[op].pc = "p_read"
        /\ \E i \in 1..Len(afterQueue) : afterQueue[i] = [fn |-> "status_saving", op |-> op]
        /\ status_label # "Saving to database..."

\* The answer is the document J inside a json fence: the opening marker first,
\* the closing marker last, whitespace at most between them and J.
FencedAs(J) ==
    \E lead \in {"", "\n"}, trail \in {"", "\n"} :
        response = JsonFence \o lead \o J \o trail \o Fence

\* The answer has no fence: it is a document with whitespace at most around it.
Unfenced ==
    \E lead \in Pads, trail \in Pads, doc \in Documents \cup {NotJson} :
        response = lead \o doc \o trail

Parsed == metadata # NotParsed

\* The fenced half of C17: a fenced document parses to the value the
\* document has without the fence.
FencedParsesAsUnfenced ==
    \A J \in Documents :
        (FencedAs(J) /\ Parsed) => metadata = JsonLoads(J)

\* C17 as stated: a fenced document parses as the document does, and an
\* answer without a fence reaches json.loads as it was received.
C17_FenceStrippingInverse ==
    /\ FencedParsesAsUnfenced
    /\ (Unfenced /\ response_text # None) => response_text = response

\* C17 amended: a fenced document parses as the document does, and an answer
\* without a fence reaches json.loads with only the whitespace around it
\* removed.
C17_FenceStrippingUpToWhitespace ==
    /\ FencedParsesAsUnfenced
    /\ (Unfenced /\ response_text # None) =>
          /\ \E lead \in Pads, trail \in Pads :
                response = lead \o response_text \o trail
          /\ response_text \in Documents \cup {NotJson}

\* A fenced document has been parsed to its value.
C17_Witness ==
    /\ response = JsonFence \o "\n" \o FullJson \o "\n" \o Fence
    /\ metadata = [ok |-> TRUE, value |-> FullValue, error |-> ""]

\* C18: selecting a file that PIL cannot decode keeps the file as the
\* selection, shows the error and no image in the preview, and sets the two
\* buttons from the selection, the key, the title and the category as the
\* selection of a decodable file does.
C18_UndecodableKeepsSelection ==
    [][\A file \in Files \ Decodable :
          select_image(file) =>
              /\ selected_image_path' = file
              /\ preview_label'.image = None
              /\ preview_label'.text = "Preview error: cannot identify image file"
              /\ (generate_btn' = "normal") <=> KeyNotBlank
              /\ (publish_btn' = "normal") <=> (title_entry # "" /\ category_var # "")
              /\ UNCHANGED <<fields, gemini_key_entry, generated_metadata>>]_vars

\* broken.jpg was selected after photo.png had been previewed and the form
\* filled: it is the selection, no image is shown, both buttons are enabled.
C18_Witness ==
    /\ selected_image_path = "broken.jpg"
    /\ preview_image = "photo.png"
    /\ preview_label = [image |-> None, text |-> "Preview error: cannot identify image file"]
    /\ generate_btn = "normal"
    /\ publish_btn = "normal"

\* The thread that a step has just started.
Started(kind) == started' = started + 1 /\ threads'[started'].kind = kind

\* C19: a press starts a publish thread only if at that moment an image is
\* selected and title and category are non-empty, and a generation thread
\* only if an image is selected and the key is non-empty, whatever the
\* buttons show; a press that is rejected changes nothing.
C19_TriggerRechecksPreconditions ==
    [][/\ Started("publish") =>
             selected_image_path # None /\ title_entry # "" /\ category_var # ""
       /\ Started("generate") =>
             selected_image_path # None /\ gemini_key_entry # ""
       /\ (started' = started /\ (publish_wallpaper \/ generate_metadata)) =>
             UNCHANGED vars
       /\ started' # started => (publish_wallpaper \/ generate_metadata)]_vars

\* Publish is still enabled although the title has been deleted, and the
\* button can be pressed: the press is one that the handler rejects.
C19_Witness ==
    /\ publish_btn = "normal"
    /\ title_entry = ""
    /\ started < MaxOps
    /\ ENABLED publish_wallpaper

\* The object that a step has put into the bucket, the row it has inserted.
NewObjects == r2_objects' \ r2_objects
NewRows == wallpapers' \ wallpapers

\* C20: the file a publish thread uploads is the file that was selected when
\* Publish was pressed, and the row it inserts holds the title, description,
\* category and tags the form held at that moment, whatever happened to the
\* form in between.
C20_PublishesSubmissionAsTriggered ==
    [][\A op \in Ops :
          /\ p_upload(op) =>
                \A o \in NewObjects : o.body = threads[op].submission.path
          /\ p_insert(op) =>
                \A w \in NewRows :
                    /\ w.title = threads[op].submission.title
                    /\ w.description = threads[op].submission.description
                    /\ w.category = threads[op].submission.category
                    /\ w.tags = ParseTags(threads[op].submission.tags)]_vars

\* C21: when the result of a generation is handled and the image the thread
\* opened is no longer the selected one (the form was cleared or another file
\* was selected meanwhile), title, category, tags and description stay as
\* they are.
C21_LateResultNotApplied ==
    [][\A op \in Ops :
          (update_metadata_ui(op) /\ selected_image_path # threads[op].image)
              => UNCHANGED fields]_vars

\* Thread op has scheduled the start of the progress bar and the interactive
\* thread has run it, and the thread has not reached its end.
Working(op) ==
    /\ threads[op].pc \notin {"idle", "g_open", "p_name", "done"}
    /\ \A i \in 1..Len(afterQueue) :
          afterQueue[i] \notin {[fn |-> "begin_generate", op |-> op],
                                [fn |-> "begin_publish", op |-> op]}

\* C22: the progress bar is running while an operation whose start the form
\* has shown is still in flight, also when another operation has finished
\* meanwhile; and it is stopped when every started operation has finished and
\* every scheduled callback has run.
C22_ProgressReflectsInFlight ==
    /\ (\E op \in Ops : Working(op)) => progress_bar = "running"
    /\ AllCallbacksRun => progress_bar = "stopped"

\* The tags of the generation result that the form holds, as texts.
GeneratedTags ==
    LET g == generated_metadata.v["tags"].v IN [i \in 1..Len(g) |-> g[i].v]

\* A tag that the comma-separated field can carry: not empty, no comma, no
\* whitespace at either end.
Clean(tag) ==
    /\ tag # ""
    /\ \A i \in 1..Len(tag) : CharAt(tag, i) # ","
    /\ CharAt(tag, 1) \notin Whitespace
    /\ CharAt(tag, Len(tag)) \notin Whitespace

\* C23 as stated: the row inserted for a form that was filled by a generation
\* result and published unedited has the tags of the result, in their order.
C23_TagsRoundTrip ==
    [][\A op \in Ops :
          p_insert(op) => \A w \in NewRows : w.tags = GeneratedTags]_vars

\* C23 amended: the same, for a result whose tags are all non-empty, hold no
\* comma and have no whitespace at either end.
C23_CleanTagsRoundTrip ==
    [][\A op \in Ops :
          (p_insert(op) /\ \A i \in 1..Len(GeneratedTags) : Clean(GeneratedTags[i]))
              => \A w \in NewRows : w.tags = GeneratedTags]_vars

\* A row with the two tags of a result has been inserted.
C23_Witness ==
    \E w \in wallpapers : w.tags = <<"a b", "b">>

=============================================================================
